---- MODULE Spec2Model ----
(***************************************************************************)
(* WZF (Windows Fuzzy Finder), src/wzf.py: the directory walker, the       *)
(* index cache, the tiered matcher and the search coordinator (one UI      *)
(* thread driving run/handle_input/filter_files, one async_search worker). *)
(*                                                                         *)
(* Strings are sequences of one-character strings, paths are sequences of  *)
(* path components (os.path.basename is the last component).               *)
(***************************************************************************)
EXTENDS Integers, Sequences, FiniteSets, TLC

VARIABLES
    \* ---- WZF instance fields (src/wzf.py:47-66)
    files,            \* self.files: list of paths
    filename_index,   \* self.filename_index: path -> lowercase basename
    filtered_files,   \* self.filtered_files
    query,            \* self.query
    selected_index,   \* self.selected_index
    page_start,       \* self.page_start
    running,          \* self.running
    search_queue,     \* self.search_queue (FIFO)
    result_queue,     \* self.result_queue (FIFO)
    max_depth,        \* self.max_depth
    use_cache,        \* self.use_cache
    progress_queue,   \* self.progress_queue (FIFO of <<directory, count>>)
    \* ---- control state of the threads
    upc,              \* UI thread: position in run / handle_input / filter_files
    wpc,              \* search thread: "none", "get", "match", "done"
    wq,               \* search thread: the query it dequeued (local `query`)
    alive,            \* search threads started (lines 473-475, 357-359) and not ended
    ipc,              \* index_files: position
    rpc,              \* progress_reporter thread: "none", "loop", "done"
    dirs_completed,   \* progress_reporter local
    total_files,      \* progress_reporter local
    total_dirs,       \* progress_reporter argument
    tasks,            \* index_files: scan_tasks, one future per drive
    \* ---- environment
    fs,               \* the directory trees of the roots being indexed
    all_drives,       \* index_files argument
    cache,            \* the cache directory: cache path -> cache file
    now,              \* time.time()
    path,             \* index_files argument: the root path as the user spelled it
    runs,             \* program runs started so far (main, lines 533-540)
    completion,       \* the order in which the tasks of a thread pool finish
    \* ---- history (not read by the program)
    nsub,             \* number of queries put on search_queue so far
    deq,              \* the queries the worker dequeued, in order
    pub,              \* ids of the results the worker published, in order
    filtered_id,      \* id of the query whose result filtered_files holds
    started_at_recv,  \* the latest dequeued query when that result was taken
    timed_out,        \* the last result_queue.get ended by queue.Empty
    last_save         \* the most recent save_cache call: outcome, path, data

coordVars == <<filtered_files, query, selected_index, page_start, running,
               search_queue, result_queue, upc, wpc, wq, alive,
               nsub, deq, pub, filtered_id, started_at_recv, timed_out>>
indexVars == <<max_depth, use_cache, progress_queue, ipc, rpc, dirs_completed,
               total_files, total_dirs, tasks, fs, all_drives, cache, now,
               path, runs, last_save, completion>>
vars == <<files, filename_index, coordVars, indexVars>>

----------------------------------------------------------------------------
(* Strings                                                                 *)

\* The characters of file names and queries are those of Latin-1; these are
\* its letters that str.lower() changes, each with the letter it gives.
UpperChars == <<"A","B","C","D","E","F","G","H","I","J","K","L","M",
                "N","O","P","Q","R","S","T","U","V","W","X","Y","Z",
                "À","Á","Â","Ã","Ä","Å","Æ","Ç","È","É","Ê","Ë","Ì",
                "Í","Î","Ï","Ð","Ñ","Ò","Ó","Ô","Õ","Ö","Ø","Ù","Ú",
                "Û","Ü","Ý","Þ">>
LowerChars == <<"a","b","c","d","e","f","g","h","i","j","k","l","m",
                "n","o","p","q","r","s","t","u","v","w","x","y","z",
                "à","á","â","ã","ä","å","æ","ç","è","é","ê","ë","ì",
                "í","î","ï","ð","ñ","ò","ó","ô","õ","ö","ø","ù","ú",
                "û","ü","ý","þ">>

\* str.lower() on one character
lower_char(c) ==
    IF \E i \in 1..Len(UpperChars) : UpperChars[i] = c
    THEN LowerChars[CHOOSE i \in 1..Len(UpperChars) : UpperChars[i] = c]
    ELSE c

\* str.lower()
lower(s) == [i \in 1..Len(s) |-> lower_char(s[i])]

\* os.path.basename
basename(p) == IF Len(p) = 0 THEN <<>> ELSE p[Len(p)]

\* s[:n]
Take(s, n) == IF Len(s) <= n THEN s ELSE SubSeq(s, 1, n)

\* sub in s  (substring test)
contains(sub, s) ==
    \E i \in 0..(Len(s) - Len(sub)) :
        \A j \in 1..Len(sub) : s[i + j] = sub[j]

\* all(c in filename for c in query_lower)
all_chars_in(q, s) ==
    \A j \in 1..Len(q) : \E i \in 1..Len(s) : s[i] = q[j]

----------------------------------------------------------------------------
(* The matcher: the body of async_search's loop for one query              *)

ResultCap == 1000
CandidateCap == 10000
ScoreCutoff == 65

\* self.filename_index.get(f, os.path.basename(f).lower())
filename_of(f) ==
    IF f \in DOMAIN filename_index THEN filename_index[f] ELSE lower(basename(f))

\* length of a longest common subsequence
RECURSIVE lcs_len(_, _)
lcs_len(a, b) ==
    IF a = <<>> \/ b = <<>> THEN 0
    ELSE IF Head(a) = Head(b) THEN 1 + lcs_len(Tail(a), Tail(b))
    ELSE LET x == lcs_len(Tail(a), b)
             y == lcs_len(a, Tail(b))
         IN IF x >= y THEN x ELSE y

\* fuzz.ratio in hundredths of a point: 100 * 2*lcs / (len(a)+len(b))
ratio100(a, b) ==
    IF Len(a) + Len(b) = 0 THEN 10000
    ELSE (20000 * lcs_len(a, b)) \div (Len(a) + Len(b))

SetMax(S) == CHOOSE x \in S : \A y \in S : y <= x

\* fuzz.partial_ratio in hundredths of a point: the best ratio of the shorter
\* string against the windows of the longer one (prefixes and suffixes
\* shorter than the needle included)
partial_ratio100(s1, s2) ==
    LET needle == IF Len(s1) <= Len(s2) THEN s1 ELSE s2
        hay    == IF Len(s1) <= Len(s2) THEN s2 ELSE s1
        m == Len(needle)
        n == Len(hay)
        windows ==
            {SubSeq(hay, 1, k) : k \in 1..(m - 1)} \cup
            {SubSeq(hay, i, i + m - 1) : i \in 1..(n - m + 1)} \cup
            {SubSeq(hay, i, n) : i \in (n - m + 2)..n}
    IN IF m = 0 THEN (IF n = 0 THEN 10000 ELSE 0)
       ELSE SetMax({ratio100(needle, w) : w \in windows})

\* indices of S in descending score order, ties in ascending index order
RECURSIVE order_by_score(_, _)
order_by_score(S, score) ==
    IF S = {} THEN <<>>
    ELSE LET best == CHOOSE i \in S : \A j \in S :
                         \/ score[i] > score[j]
                         \/ (score[i] = score[j] /\ i <= j)
         IN <<best>> \o order_by_score(S \ {best}, score)

\* process.extract(query, choices, limit, scorer=fuzz.partial_ratio, score_cutoff):
\* the choices (match[0]) scoring at or above the cutoff, best first
extract(q, choices, limit, cutoff) ==
    LET score == [i \in 1..Len(choices) |-> partial_ratio100(q, choices[i])]
        kept  == {i \in 1..Len(choices) : score[i] >= 100 * cutoff}
        ord   == order_by_score(kept, score)
    IN Take([k \in 1..Len(ord) |-> choices[ord[k]]], limit)

\* list.index(x): the first position holding x
index_of(s, x) == CHOOSE i \in 1..Len(s) : s[i] = x /\ \A j \in 1..(i - 1) : s[j] # x

\* an empty-query result without the cap
match_empty_uncapped == files

\* empty query (lines 297-300)
match_empty == Take(files, ResultCap)

\* len(query) <= 2 (lines 303-308)
match_short(q) ==
    LET query_lower == lower(q)
        results == SelectSeq(files, LAMBDA f : contains(query_lower, filename_of(f)))
    IN Take(results, ResultCap)

\* a pre-filter that looks for the characters in the basename as it is on
\* disk, not lowercased
prefilter_raw_name(query_lower) ==
    SelectSeq(files, LAMBDA f : all_chars_in(query_lower, basename(f)))

\* the character pre-filter (lines 313-319 and 330-334)
prefilter(query_lower) ==
    SelectSeq(files, LAMBDA f : all_chars_in(query_lower, filename_of(f)))

\* a medium tier that stops after the character pre-filter
match_medium_prefilter_only(q) == Take(prefilter(lower(q)), ResultCap)

\* len(query) <= 4 (lines 311-324)
match_medium(q) ==
    LET query_lower == lower(q)
        candidates == prefilter(query_lower)
        results == SelectSeq(candidates, LAMBDA f : contains(query_lower, filename_of(f)))
    IN Take(results, ResultCap)

\* longer queries (lines 326-351)
match_long(q) ==
    LET query_lower == lower(q)
        candidates == Take(prefilter(query_lower), CandidateCap)
        filenames == [i \in 1..Len(candidates) |-> lower(basename(candidates[i]))]
        matches == extract(query_lower, filenames, ResultCap, ScoreCutoff)
    IN IF candidates = <<>> THEN <<>>
       ELSE [k \in 1..Len(matches) |-> candidates[index_of(filenames, matches[k])]]

\* what async_search puts on result_queue for a (non-sentinel) query
search_result(q) ==
    IF q = <<>> THEN match_empty
    ELSE IF Len(q) <= 2 THEN match_short(q)
    ELSE IF Len(q) <= 4 THEN match_medium(q)
    ELSE match_long(q)

----------------------------------------------------------------------------
(* The search coordinator: run, handle_input, filter_files (UI thread) and *)
(* async_search (search thread)                                            *)

MaxSubmissions == 4   \* queries put on search_queue in one run
MaxQueryLen == 2      \* characters typed into the query
Keys == {<<"a">>, <<"B">>}  \* the character keys pressed

\* an entry of search_queue: a query, or the None sentinel
QueryItem(q, id) == [none |-> FALSE, q |-> q, id |-> id]
NoneItem == [none |-> TRUE, q |-> <<>>, id |-> 0]
NoQuery == NoneItem

Last(s) == s[Len(s)]
LastOr0(s) == IF s = <<>> THEN 0 ELSE s[Len(s)]
LastOrNone(s) == IF s = <<>> THEN NoneItem ELSE s[Len(s)]
Ids(s) == [i \in 1..Len(s) |-> s[i].id]

\* the queries (not the sentinel) waiting on search_queue
PendingQueries == SelectSeq(search_queue, LAMBDA it : ~it.none)

\* ---- run (lines 472-495)

\* lines 473-475: the search thread is started
RunStartThread ==
    /\ upc = "run_start"
    /\ wpc' = "get"
    /\ alive' = alive + 1
    /\ upc' = "initial_put"
    /\ UNCHANGED <<files, filename_index, indexVars, filtered_files, query,
                   selected_index, page_start, running, search_queue, result_queue,
                   wq, nsub, deq, pub, filtered_id, started_at_recv, timed_out>>

\* line 481: self.search_queue.put(self.query)
InitialPut ==
    /\ upc = "initial_put"
    /\ search_queue' = Append(search_queue, QueryItem(query, nsub + 1))
    /\ nsub' = nsub + 1
    /\ upc' = "initial_poll"
    /\ UNCHANGED <<files, filename_index, indexVars, alive, filtered_files, query,
                   selected_index, page_start, running, result_queue, wpc, wq,
                   deq, pub, filtered_id, started_at_recv, timed_out>>

\* lines 482-485: result_queue.get(timeout=0.5) or self.files[:1000]
InitialPoll ==
    /\ upc = "initial_poll"
    /\ IF result_queue # <<>>
       THEN /\ filtered_files' = IF Head(result_queue).res # <<>>
                                 THEN Head(result_queue).res
                                 ELSE Take(files, ResultCap)
            /\ filtered_id' = Head(result_queue).id
            /\ started_at_recv' = LastOrNone(deq)
            /\ result_queue' = Tail(result_queue)
            /\ timed_out' = FALSE
       ELSE /\ filtered_files' = Take(files, ResultCap)
            /\ timed_out' = TRUE
            /\ UNCHANGED <<filtered_id, started_at_recv, result_queue>>
    /\ upc' = "loop"
    /\ UNCHANGED <<files, filename_index, indexVars, alive, query, selected_index,
                   page_start, running, search_queue, wpc, wq, nsub, deq, pub>>

\* ---- handle_input (lines 407-451), one key event

\* 'esc' (lines 412-413); the main loop (line 488) then ends
KeyEsc ==
    /\ upc = "loop"
    /\ running' = FALSE
    /\ upc' = "cleanup"
    /\ UNCHANGED <<files, filename_index, indexVars, alive, filtered_files, query,
                   selected_index, page_start, search_queue, result_queue, wpc, wq,
                   nsub, deq, pub, filtered_id, started_at_recv, timed_out>>

\* self.page_size (line 52)
page_size == 10

Min(a, b) == IF a <= b THEN a ELSE b
Max(a, b) == IF a >= b THEN a ELSE b

\* 'up' (lines 414-417)
KeyUp ==
    /\ upc = "loop"
    /\ selected_index' = Max(0, selected_index - 1)
    /\ page_start' = IF selected_index' < page_start
                     THEN Max(0, page_start - page_size)
                     ELSE page_start
    /\ UNCHANGED <<files, filename_index, indexVars, alive, filtered_files, query,
                   running, search_queue, result_queue, upc, wpc, wq,
                   nsub, deq, pub, filtered_id, started_at_recv, timed_out>>

\* a 'down' that moves the selection and never the page
KeyDown_NoScroll ==
    /\ upc = "loop"
    /\ selected_index' = Min(Len(filtered_files) - 1, selected_index + 1)
    /\ UNCHANGED <<files, filename_index, indexVars, alive, filtered_files, query,
                   page_start, running, search_queue, result_queue, upc, wpc, wq,
                   nsub, deq, pub, filtered_id, started_at_recv, timed_out>>

\* 'down' (lines 418-421)
KeyDown ==
    /\ upc = "loop"
    /\ selected_index' = Min(Len(filtered_files) - 1, selected_index + 1)
    /\ page_start' = IF selected_index' >= page_start + page_size
                     THEN Min(Len(filtered_files) - 1, page_start + page_size)
                     ELSE page_start
    /\ UNCHANGED <<files, filename_index, indexVars, alive, filtered_files, query,
                   running, search_queue, result_queue, upc, wpc, wq,
                   nsub, deq, pub, filtered_id, started_at_recv, timed_out>>

\* 'page up' (lines 422-424)
KeyPageUp ==
    /\ upc = "loop"
    /\ page_start' = Max(0, page_start - page_size)
    /\ selected_index' = page_start'
    /\ UNCHANGED <<files, filename_index, indexVars, alive, filtered_files, query,
                   running, search_queue, result_queue, upc, wpc, wq,
                   nsub, deq, pub, filtered_id, started_at_recv, timed_out>>

\* 'page down' (lines 425-427)
KeyPageDown ==
    /\ upc = "loop"
    /\ page_start' = Min(Len(filtered_files) - 1, page_start + page_size)
    /\ selected_index' = page_start'
    /\ UNCHANGED <<files, filename_index, indexVars, alive, filtered_files, query,
                   running, search_queue, result_queue, upc, wpc, wq,
                   nsub, deq, pub, filtered_id, started_at_recv, timed_out>>

\* 'enter' (lines 428-440)
KeyEnter ==
    /\ upc = "loop"
    /\ IF filtered_files # <<>> /\ 0 <= selected_index
          /\ selected_index < Len(filtered_files)
       THEN running' = FALSE /\ upc' = "cleanup"
       ELSE UNCHANGED <<running, upc>>
    /\ UNCHANGED <<files, filename_index, indexVars, alive, filtered_files, query,
                   selected_index, page_start, search_queue, result_queue, wpc, wq,
                   nsub, deq, pub, filtered_id, started_at_recv, timed_out>>

\* 'backspace' (line 442), up to the call of filter_files
KeyBackspace ==
    /\ upc = "loop"
    /\ nsub < MaxSubmissions
    /\ query' = IF query = <<>> THEN <<>> ELSE SubSeq(query, 1, Len(query) - 1)
    /\ upc' = "ff_start"
    /\ UNCHANGED <<files, filename_index, indexVars, alive, filtered_files,
                   selected_index, page_start, running, search_queue, result_queue,
                   wpc, wq, nsub, deq, pub, filtered_id, started_at_recv, timed_out>>

\* a character key (lines 446-448), up to the call of filter_files
KeyChar ==
    /\ upc = "loop"
    /\ nsub < MaxSubmissions
    /\ Len(query) < MaxQueryLen
    /\ \E c \in Keys : query' = query \o c
    /\ upc' = "ff_start"
    /\ UNCHANGED <<files, filename_index, indexVars, alive, filtered_files,
                   selected_index, page_start, running, search_queue, result_queue,
                   wpc, wq, nsub, deq, pub, filtered_id, started_at_recv, timed_out>>

\* ---- filter_files (lines 353-374)

\* a filter_files that starts a search thread on every call
FF_StartThread_Always ==
    /\ upc = "ff_start"
    /\ wpc' = IF wpc \in {"none", "done"} THEN "get" ELSE wpc
    /\ alive' = alive + 1
    /\ upc' = "ff_drain"
    /\ UNCHANGED <<files, filename_index, indexVars, filtered_files, query,
                   selected_index, page_start, running, search_queue, result_queue,
                   wq, nsub, deq, pub, filtered_id, started_at_recv, timed_out>>

\* lines 356-359: start the search thread if there is none or it has ended
FF_StartThread ==
    /\ upc = "ff_start"
    /\ wpc' = IF wpc \in {"none", "done"} THEN "get" ELSE wpc
    /\ alive' = IF wpc \in {"none", "done"} THEN alive + 1 ELSE alive
    /\ upc' = "ff_drain"
    /\ UNCHANGED <<files, filename_index, indexVars, filtered_files, query,
                   selected_index, page_start, running, search_queue, result_queue,
                   wq, nsub, deq, pub, filtered_id, started_at_recv, timed_out>>

\* filter_files without the drain loop of lines 362-366
FF_DrainCheck_NoDrain ==
    /\ upc = "ff_drain"
    /\ upc' = "ff_put"
    /\ UNCHANGED <<files, filename_index, indexVars, alive, filtered_files, query,
                   selected_index, page_start, running, search_queue, result_queue,
                   wpc, wq, nsub, deq, pub, filtered_id, started_at_recv, timed_out>>

\* line 362: while not self.search_queue.empty()
FF_DrainCheck ==
    /\ upc = "ff_drain"
    /\ upc' = IF search_queue # <<>> THEN "ff_drain_get" ELSE "ff_put"
    /\ UNCHANGED <<files, filename_index, indexVars, alive, filtered_files, query,
                   selected_index, page_start, running, search_queue, result_queue,
                   wpc, wq, nsub, deq, pub, filtered_id, started_at_recv, timed_out>>

\* lines 363-366: get_nowait(); queue.Empty (the worker took it first) ends the loop
FF_DrainGet ==
    /\ upc = "ff_drain_get"
    /\ IF search_queue # <<>>
       THEN search_queue' = Tail(search_queue) /\ upc' = "ff_drain"
       ELSE UNCHANGED search_queue /\ upc' = "ff_put"
    /\ UNCHANGED <<files, filename_index, indexVars, alive, filtered_files, query,
                   selected_index, page_start, running, result_queue,
                   wpc, wq, nsub, deq, pub, filtered_id, started_at_recv, timed_out>>

\* line 367: self.search_queue.put(self.query)
FF_Put ==
    /\ upc = "ff_put"
    /\ search_queue' = Append(search_queue, QueryItem(query, nsub + 1))
    /\ nsub' = nsub + 1
    /\ upc' = "ff_poll"
    /\ UNCHANGED <<files, filename_index, indexVars, alive, filtered_files, query,
                   selected_index, page_start, running, result_queue, wpc, wq,
                   deq, pub, filtered_id, started_at_recv, timed_out>>

\* a timed-out get that clears the list instead of keeping it
PollTimeoutClears == <<>>

\* what the timed-out get leaves in filtered_files (lines 372-374: pass)
PollTimeoutKeeps == filtered_files

\* lines 370-374: result_queue.get(timeout=0.1); then the rest of the key
\* handler (lines 444-445, 450-451) and back to the main loop
FF_Poll ==
    /\ upc = "ff_poll"
    /\ IF result_queue # <<>>
       THEN /\ filtered_files' = Head(result_queue).res
            /\ filtered_id' = Head(result_queue).id
            /\ started_at_recv' = LastOrNone(deq)
            /\ result_queue' = Tail(result_queue)
            /\ timed_out' = FALSE
       ELSE /\ filtered_files' = PollTimeoutKeeps
            /\ timed_out' = TRUE
            /\ UNCHANGED <<filtered_id, started_at_recv, result_queue>>
    /\ selected_index' = 0
    /\ page_start' = 0
    /\ upc' = "loop"
    /\ UNCHANGED <<files, filename_index, indexVars, alive, query, running,
                   search_queue, wpc, wq, nsub, deq, pub>>

\* ---- cleanup at the end of run (lines 492-495)

\* line 493: self.search_queue.put(None)
CleanupPut ==
    /\ upc = "cleanup"
    /\ search_queue' = Append(search_queue, NoneItem)
    /\ upc' = "join"
    /\ UNCHANGED <<files, filename_index, indexVars, alive, filtered_files, query,
                   selected_index, page_start, running, result_queue, wpc, wq,
                   nsub, deq, pub, filtered_id, started_at_recv, timed_out>>

\* a join() without its timeout
JoinNeverTimesOut == FALSE

\* join(timeout=0.5) gives up: the wait ran out with the thread still alive
JoinTimedOut == wpc # "done"

\* line 494: self.search_thread.join(timeout=0.5); run returns
Join ==
    /\ upc = "join"
    /\ (wpc = "done" \/ JoinTimedOut)
    /\ upc' = "returned"
    /\ UNCHANGED <<files, filename_index, indexVars, alive, filtered_files, query,
                   selected_index, page_start, running, search_queue, result_queue,
                   wpc, wq, nsub, deq, pub, filtered_id, started_at_recv, timed_out>>

\* ---- async_search (lines 287-351)

\* an async_search that does not test for the sentinel: None is matched and
\* published like a query
WorkerGet_NoBreak ==
    /\ wpc = "get"
    /\ search_queue # <<>>
    /\ search_queue' = Tail(search_queue)
    /\ wpc' = "match"
    /\ wq' = Head(search_queue)
    /\ deq' = IF Head(search_queue).none THEN deq
              ELSE Append(deq, Head(search_queue))
    /\ UNCHANGED <<files, filename_index, indexVars, alive, filtered_files, query,
                   selected_index, page_start, running, result_queue, upc,
                   nsub, pub, filtered_id, started_at_recv, timed_out>>

\* an async_search that leaves its loop on any falsy item, the empty string
\* as well as None
WorkerGet_EmptyEnds ==
    /\ wpc = "get"
    /\ search_queue # <<>>
    /\ search_queue' = Tail(search_queue)
    /\ IF Head(search_queue).none \/ Head(search_queue).q = <<>>
       THEN wpc' = "done" /\ alive' = alive - 1 /\ UNCHANGED <<wq, deq>>
       ELSE /\ wpc' = "match"
            /\ wq' = Head(search_queue)
            /\ deq' = Append(deq, Head(search_queue))
            /\ UNCHANGED alive
    /\ UNCHANGED <<files, filename_index, indexVars, filtered_files, query,
                   selected_index, page_start, running, result_queue, upc,
                   nsub, pub, filtered_id, started_at_recv, timed_out>>

\* lines 290-292: query = self.search_queue.get(); the sentinel ends the loop
WorkerGet ==
    /\ wpc = "get"
    /\ search_queue # <<>>
    /\ search_queue' = Tail(search_queue)
    /\ IF Head(search_queue).none
       THEN wpc' = "done" /\ alive' = alive - 1 /\ UNCHANGED <<wq, deq>>
       ELSE /\ wpc' = "match"
            /\ wq' = Head(search_queue)
            /\ deq' = Append(deq, Head(search_queue))
            /\ UNCHANGED alive
    /\ UNCHANGED <<files, filename_index, indexVars, filtered_files, query,
                   selected_index, page_start, running, result_queue, upc,
                   nsub, pub, filtered_id, started_at_recv, timed_out>>

\* an async_search that drops the match it has just computed when a newer
\* item is already waiting on search_queue
WorkerMatch_Cancel ==
    /\ wpc = "match"
    /\ IF search_queue # <<>>
       THEN UNCHANGED <<result_queue, pub>>
       ELSE /\ result_queue' = Append(result_queue,
                                      [id |-> wq.id, res |-> search_result(wq.q)])
            /\ pub' = Append(pub, wq.id)
    /\ wq' = NoQuery
    /\ wpc' = "get"
    /\ UNCHANGED <<files, filename_index, indexVars, alive, filtered_files, query,
                   selected_index, page_start, running, search_queue, upc,
                   nsub, deq, filtered_id, started_at_recv, timed_out>>

\* lines 294-351: the match of the dequeued query, and its result_queue.put
WorkerMatch ==
    /\ wpc = "match"
    /\ result_queue' = Append(result_queue, [id |-> wq.id, res |-> search_result(wq.q)])
    /\ pub' = Append(pub, wq.id)
    /\ wq' = NoQuery
    /\ wpc' = "get"
    /\ UNCHANGED <<files, filename_index, indexVars, alive, filtered_files, query,
                   selected_index, page_start, running, search_queue, upc,
                   nsub, deq, filtered_id, started_at_recv, timed_out>>

\* The navigation keys of handle_input (lines 414-427) write only
\* selected_index and page_start, which no step of the coordinator reads
\* except the guard of 'enter'; they are the separate NavStep.
UIStep == RunStartThread \/ InitialPut \/ InitialPoll \/ FF_StartThread
          \/ FF_DrainCheck \/ FF_DrainGet \/ FF_Put \/ FF_Poll \/ CleanupPut \/ Join
KeyStep == KeyEsc \/ KeyEnter \/ KeyBackspace \/ KeyChar
WorkerStep == WorkerGet \/ WorkerMatch
NavStep == KeyUp \/ KeyDown \/ KeyPageUp \/ KeyPageDown

----------------------------------------------------------------------------
(* The directory walker: scan_directory (lines 122-171)                    *)

\* self.exclude_dirs (line 55)
exclude_dirs == {
    <<".","g","i","t">>,
    <<"n","o","d","e","_","m","o","d","u","l","e","s">>,
    <<"_","_","p","y","c","a","c","h","e","_","_">>,
    <<"v","e","n","v">>,
    <<".","v","e","n","v">>,
    <<".","e","n","v">>,
    <<"$","R","e","c","y","c","l","e",".","B","i","n">>,
    <<"S","y","s","t","e","m"," ","V","o","l","u","m","e"," ","I","n","f","o","r","m","a","t","i","o","n">>,
    <<"W","i","n","d","o","w","s",".","o","l","d">> }

\* self.exclude_files (line 56)
exclude_files == {
    <<".","g","i","t","i","g","n","o","r","e">>,
    <<".","D","S","_","S","t","o","r","e">>,
    <<"T","h","u","m","b","s",".","d","b">>,
    <<"d","e","s","k","t","o","p",".","i","n","i">> }

\* A directory entry: kind is "file", "dir", or "err" (an entry whose
\* is_file()/is_dir() raises OSError); ok tells whether os.scandir can open
\* a directory; entries are a directory's children in os.scandir order.
File(nm) == [name |-> nm, kind |-> "file", ok |-> TRUE, entries |-> <<>>]
ErrEntry(nm) == [name |-> nm, kind |-> "err", ok |-> TRUE, entries |-> <<>>]
Dir(nm, ok, es) == [name |-> nm, kind |-> "dir", ok |-> ok, entries |-> es]

\* line 154: more sub-directories than this go to the thread pool
FanOutThreshold == 4

RECURSIVE Concat(_)
Concat(ss) == IF ss = <<>> THEN <<>> ELSE Head(ss) \o Concat(Tail(ss))

Range(s) == {s[i] : i \in 1..Len(s)}

RECURSIVE scan_directory(_, _, _, _)

\* a depth test that also cuts the level max_depth itself
too_deep_off_by_one(depth) == depth >= max_depth

\* line 124: if depth > self.max_depth
too_deep(depth) == depth > max_depth

\* a walker that excludes no directory
skip_dir_never(name) == FALSE

\* line 147: the test entry.name not in self.exclude_dirs, negated
skip_dir(name) == name \in exclude_dirs

\* a walk of the sub-directories that an unreadable one aborts: the files of
\* its siblings are lost with it
scan_subdirs_abort(directory, dirs_to_scan, depth) ==
    IF \E i \in 1..Len(dirs_to_scan) : ~dirs_to_scan[i].ok
    THEN <<>>
    ELSE Concat([i \in 1..Len(dirs_to_scan) |->
            scan_directory(directory \o <<dirs_to_scan[i].name>>,
                           dirs_to_scan[i], depth + 1, FALSE).ret])

\* a walk whose pool branch calls scan_directory(d, depth) where line 156
\* passes depth + 1
scan_subdirs_same_depth(directory, dirs_to_scan, depth) ==
    LET d == IF Len(dirs_to_scan) > FanOutThreshold THEN depth ELSE depth + 1
    IN Concat([i \in 1..Len(dirs_to_scan) |->
            scan_directory(directory \o <<dirs_to_scan[i].name>>,
                           dirs_to_scan[i], d, FALSE).ret])

\* the order in which the tasks of a pool over n inputs finish: the schedule
\* in completion when it is one for n tasks, the input order otherwise
pool_order(n) == IF Len(completion) = n THEN completion ELSE [i \in 1..n |-> i]

\* the pool's tasks in the order they finish, each with its input position
\* and its result
finished_tasks(results) ==
    [k \in 1..Len(results) |->
        [pos |-> pool_order(Len(results))[k],
         ret |-> results[pool_order(Len(results))[k]]]]

\* a pool branch that extends files with the results as the tasks finish
\* (as concurrent.futures.as_completed would hand them over)
scan_subdirs_as_completed(directory, dirs_to_scan, depth) ==
    LET results == [i \in 1..Len(dirs_to_scan) |->
                      scan_directory(directory \o <<dirs_to_scan[i].name>>,
                                     dirs_to_scan[i], depth + 1, FALSE).ret]
        finished == finished_tasks(results)
    IN IF Len(dirs_to_scan) > FanOutThreshold
       THEN Concat([k \in 1..Len(finished) |-> finished[k].ret])
       ELSE Concat(results)

\* lines 154-161: the recursive calls for dirs_to_scan and the files.extend of
\* their results. executor.map (line 156) yields the results in the order of
\* dirs_to_scan, as the sequential loop (lines 160-161) does.
scan_subdirs(directory, dirs_to_scan, depth) ==
    LET results == [i \in 1..Len(dirs_to_scan) |->
                      scan_directory(directory \o <<dirs_to_scan[i].name>>,
                                     dirs_to_scan[i], depth + 1, FALSE).ret]
        finished == finished_tasks(results)
        \* list(executor.map(...)): the i-th element is the result of the
        \* i-th input, whenever its task finished
        mapped == [i \in 1..Len(dirs_to_scan) |->
                      finished[CHOOSE k \in 1..Len(finished) : finished[k].pos = i].ret]
    IN IF Len(dirs_to_scan) > FanOutThreshold     \* line 154
       THEN Concat(mapped)                        \* lines 155-158
       ELSE Concat(results)                       \* lines 160-161

\* scan_directory(directory, depth, queue): ret is the returned list, puts
\* what the call put on the progress queue (has_queue: queue is not None).
\* The handler of lines 168-171 is entered only by an OSError raised outside
\* the two inner try blocks; the modelled file system raises none there.
scan_directory(directory, node, depth, has_queue) ==
    IF too_deep(depth)
    THEN [ret |-> <<>>, puts |-> <<>>]                        \* lines 124-125
    ELSE IF ~node.ok
    THEN [ret |-> <<>>, puts |-> <<>>]                        \* lines 132-135
    ELSE
    LET entries == node.entries
        kept == SelectSeq(entries,                            \* lines 140-143
                    LAMBDA e : e.kind = "file" /\ e.name \notin exclude_files)
        own == [i \in 1..Len(kept) |-> directory \o <<kept[i].name>>]
        dirs_to_scan == SelectSeq(entries,                    \* lines 147-148
                    LAMBDA e : e.kind = "dir" /\ ~skip_dir(e.name))
        found == IF dirs_to_scan # <<>> /\ depth < max_depth  \* line 153
                 THEN own \o scan_subdirs(directory, dirs_to_scan, depth)
                 ELSE own
    IN [ret |-> found,
        puts |-> IF depth = 0 /\ has_queue                    \* lines 164-165
                 THEN << <<directory, Len(found)>> >> ELSE <<>>]

\* the writes of lines 145-146 made by a scan that returned these files
index_after(idx, found) ==
    [p \in (DOMAIN idx) \cup Range(found) |->
        IF p \in Range(found) THEN lower(basename(p)) ELSE idx[p]]

----------------------------------------------------------------------------
(* The index cache: load_cache, save_cache (lines 88-120)                  *)

\* self.cache_ttl (line 65)
cache_ttl == 86400

\* the items of a dict, one <<key, value>> pair after another
RECURSIVE dict_items(_)
dict_items(d) ==
    IF DOMAIN d = {} THEN <<>>
    ELSE LET k == CHOOSE k \in DOMAIN d : TRUE
         IN << <<k, d[k]>> >> \o dict_items([j \in DOMAIN d \ {k} |-> d[j]])

\* the value an item sequence gives a key (a later item overrides)
item_value(items, k) ==
    items[CHOOSE i \in 1..Len(items) :
            /\ items[i][1] = k
            /\ \A j \in (i + 1)..Len(items) : items[j][1] # k][2]

\* the dict built from an item sequence
dict_of(items) ==
    [k \in {items[i][1] : i \in 1..Len(items)} |-> item_value(items, k)]

\* pickle.dump(data, f), line 118: the bytes of a payload dict, given as the
\* sequence of its entries; the file list is written as a list, the basename
\* mapping as its items
pickle_dump(data) ==
    (IF "files" \in DOMAIN data
     THEN << <<"files", data.files>> >> ELSE <<>>)
    \o (IF "filename_index" \in DOMAIN data
        THEN << <<"filename_index", dict_items(data.filename_index)>> >>
        ELSE <<>>)

\* pickle.load(f), line 104: the dict the bytes hold
pickle_load(bytes) ==
    [key \in {bytes[i][1] : i \in 1..Len(bytes)} |->
        IF key = "filename_index"
        THEN dict_of(item_value(bytes, key))
        ELSE item_value(bytes, key)]

\* A cache file: exists, its mtime, whether its bytes unpickle at all
\* (corrupt = TRUE: pickle.load raises), and its bytes (a payload of another
\* shape lacks some of the keys).
NoCacheFile == [exists |-> FALSE, mtime |-> 0, corrupt |-> FALSE, data |-> <<>>]
CacheFile(mtime, corrupt, data) ==
    [exists |-> TRUE, mtime |-> mtime, corrupt |-> corrupt, data |-> data]

nDot == <<".">>

\* what the operating system does with a path (os.scandir, line 133): a "."
\* component names the directory it stands in
Normalize(p) == SelectSeq(p, LAMBDA c : c # nDot)

\* the directory tree a path names
TreeOf(p) == fs[CHOOSE i \in 1..Len(fs) : <<fs[i].name>> = Normalize(p)]

\* the path string: the components joined by the separator
RECURSIVE path_str(_)
path_str(p) ==
    IF p = <<>> THEN <<>>
    ELSE IF Len(p) = 1 THEN p[1]
    ELSE p[1] \o <<"/">> \o path_str(Tail(p))

\* hashlib.md5(path.encode()).hexdigest() (line 85): the digest of the
\* string exactly as given, tabulated for the path strings of the runs
md5(str) ==
    CASE str = <<"R">>           -> "e1e1d3d40573127e9ee0480caf1283d6"
      [] str = <<".", "/", "R">> -> "605d6ca2a948cde3b4416cec787f2642"
      [] str = <<"S">>           -> "5dbc98dcc983a70728bd082d1a47546e"
      [] str = <<".", "g", "i", "t">> -> "a53d9769108a807d7b87f335e0a16682"

\* get_cache_path(path), lines 81-86 (index_files never passes None)
get_cache_path(p) == <<"wzf_cache_", md5(path_str(p)), ".pkl">>

\* the returned None
Miss == [hit |-> FALSE, data |-> [files |-> <<>>, filename_index |-> <<>>]]

\* load_cache(path): hit = FALSE stands for the returned None
load_cache(p) ==
    LET c == cache[get_cache_path(p)]
        cache_data == pickle_load(c.data)                        \* line 104
    IN IF ~use_cache THEN Miss                                   \* lines 90-91
       ELSE IF ~c.exists THEN Miss                               \* lines 94-95
       ELSE IF now - c.mtime > cache_ttl THEN Miss               \* lines 98-100
       ELSE IF c.corrupt THEN Miss                               \* lines 104, 107-108
       ELSE IF "files" \notin DOMAIN cache_data THEN Miss        \* lines 105, 107-108
       ELSE [hit |-> TRUE, data |-> cache_data]                  \* line 106

\* what can happen to the write of lines 117-118: open() fails (the file
\* stays as it was), pickle.dump fails after open() has truncated the file
\* (bytes that do not unpickle), or both succeed
SaveOutcomes == {"open_failed", "dump_failed", "written"}

\* a save that stores the file list without the basename mapping
save_cache_files_only(p, data, outcome) ==
    IF ~use_cache THEN cache
    ELSE [cache EXCEPT ![get_cache_path(p)] =
            IF outcome = "open_failed" THEN @
            ELSE IF outcome = "dump_failed" THEN CacheFile(now, TRUE, NoCacheFile.data)
            ELSE CacheFile(now, FALSE, pickle_dump([files |-> data.files]))]

\* a save that on a failed dump leaves a well-formed record of an empty index
save_cache_placeholder(p, data, outcome) ==
    IF ~use_cache THEN cache
    ELSE [cache EXCEPT ![get_cache_path(p)] =
            IF outcome = "open_failed" THEN @
            ELSE IF outcome = "dump_failed"
                 THEN CacheFile(now, FALSE, pickle_dump(Miss.data))
            ELSE CacheFile(now, FALSE, pickle_dump(data))]

\* save_cache(path, data), lines 110-120: the cache directory afterwards
save_cache(p, data, outcome) ==
    IF ~use_cache THEN cache                                     \* lines 112-113
    ELSE [cache EXCEPT ![get_cache_path(p)] =
            IF outcome = "open_failed" THEN @                    \* lines 117, 119-120
            ELSE IF outcome = "dump_failed"                      \* lines 118-120
                 THEN CacheFile(now, TRUE, NoCacheFile.data)
            ELSE CacheFile(now, FALSE, pickle_dump(data))]       \* lines 117-118

----------------------------------------------------------------------------
(* index_files (lines 226-285) and progress_reporter (lines 197-224)       *)

\* the path of root i: the indexed path, or in all-drives mode the drive
\* (scan_drives, lines 173-195: "C:\\", "D:\\", ...)
RootPath(i) == IF all_drives THEN << <<UpperChars[i + 2], ":">> >> ELSE path

\* the tree of root i
RootTree(i) == IF all_drives THEN fs[i] ELSE TreeOf(path)

\* lines 231-238: the cache is tried first (single path only). A returned
\* dict holds the key 'files' (line 105), so `if cache_data` is true; line 237
\* raises KeyError when it holds no 'filename_index', after line 236 has
\* assigned self.files, and nothing in index_files or run catches it.
IdxLoadCache ==
    /\ ipc = "start"
    /\ IF ~all_drives /\ load_cache(path).hit
       THEN /\ files' = load_cache(path).data.files
            /\ IF "filename_index" \in DOMAIN load_cache(path).data
               THEN /\ filename_index' = load_cache(path).data.filename_index
                    /\ ipc' = "returned"
               ELSE /\ ipc' = "raised"
                    /\ UNCHANGED filename_index
       ELSE /\ ipc' = "setup"
            /\ UNCHANGED <<files, filename_index>>
    /\ UNCHANGED <<coordVars, max_depth, use_cache, progress_queue, rpc,
                   dirs_completed, total_files, total_dirs, tasks, fs, all_drives,
                   cache, now, path, runs, last_save, completion>>

\* lines 241-258 / 266-272: the progress queue, the reporter thread, and in
\* all-drives mode one submitted task per drive and self.files = []
IdxSetup ==
    /\ ipc = "setup"
    /\ progress_queue' = <<>>
    /\ rpc' = "loop"
    /\ total_dirs' = IF all_drives THEN Len(fs) ELSE 1
    /\ dirs_completed' = 0
    /\ total_files' = 0
    /\ IF all_drives
       THEN /\ tasks' = [i \in 1..Len(fs) |->
                          [state |-> "pending", result |-> <<>>, collected |-> FALSE]]
            /\ files' = <<>>
            /\ ipc' = "collect"
       ELSE /\ ipc' = "scan"
            /\ UNCHANGED <<tasks, files>>
    /\ UNCHANGED <<coordVars, filename_index, max_depth, use_cache, fs, all_drives,
                   cache, now, path, runs, last_save, completion>>

\* line 274: self.files = self.scan_directory(path, queue=self.progress_queue)
IdxScan ==
    /\ ipc = "scan"
    /\ LET r == scan_directory(RootPath(1), RootTree(1), 0, TRUE)
       IN /\ files' = r.ret
          /\ filename_index' = index_after(filename_index, r.ret)
          /\ progress_queue' = progress_queue \o r.puts
    /\ ipc' = "join"
    /\ UNCHANGED <<coordVars, max_depth, use_cache, rpc, dirs_completed,
                   total_files, total_dirs, tasks, fs, all_drives, cache, now, path, runs, last_save, completion>>

\* line 256: a pool task runs scan_directory(drive, 0, self.progress_queue)
\* in another process (its writes to filename_index stay there), or raises
\* (the submitted call may fail to reach the worker process at all; then
\* task.result() raises and nothing is put)
TaskRun ==
    /\ \E i \in 1..Len(tasks) :
        /\ tasks[i].state = "pending"
        /\ \/ LET r == scan_directory(RootPath(i), RootTree(i), 0, TRUE)
              IN /\ tasks' = [tasks EXCEPT ![i].state = "ok", ![i].result = r.ret]
                 /\ progress_queue' = progress_queue \o r.puts
           \/ /\ tasks' = [tasks EXCEPT ![i].state = "raised"]
              /\ UNCHANGED progress_queue
    /\ UNCHANGED <<coordVars, files, filename_index, max_depth, use_cache, ipc, rpc,
                   dirs_completed, total_files, total_dirs, fs, all_drives,
                   cache, now, path, runs, last_save, completion>>

\* the next task whose result index_files waits for (lines 259-264)
NextTask ==
    IF \E i \in 1..Len(tasks) : ~tasks[i].collected
    THEN CHOOSE i \in 1..Len(tasks) :
            /\ ~tasks[i].collected
            /\ \A j \in 1..(i - 1) : tasks[j].collected
    ELSE 0

\* lines 259-264: task.result() in submission order; a raised task is skipped
IdxCollect ==
    /\ ipc = "collect"
    /\ IF NextTask = 0
       THEN /\ ipc' = "join"
            /\ UNCHANGED <<files, tasks>>
       ELSE /\ tasks[NextTask].state \in {"ok", "raised"}
            /\ files' = IF tasks[NextTask].state = "ok"
                        THEN files \o tasks[NextTask].result ELSE files
            /\ tasks' = [tasks EXCEPT ![NextTask].collected = TRUE]
            /\ UNCHANGED ipc
    /\ UNCHANGED <<coordVars, filename_index, max_depth, use_cache, progress_queue,
                   rpc, dirs_completed, total_files, total_dirs, fs, all_drives,
                   cache, now, path, runs, last_save, completion>>

\* line 277: progress_thread.join()
IdxJoin ==
    /\ ipc = "join"
    /\ rpc = "done"
    /\ ipc' = IF all_drives THEN "returned" ELSE "save"
    /\ UNCHANGED <<coordVars, files, filename_index, max_depth, use_cache,
                   progress_queue, rpc, dirs_completed, total_files, total_dirs,
                   tasks, fs, all_drives, cache, now, path, runs, last_save, completion>>

\* lines 280-285: save_cache(path, {'files': ..., 'filename_index': ...})
IdxSave ==
    /\ ipc = "save"
    /\ LET cache_data == [files |-> files, filename_index |-> filename_index]
       IN \E outcome \in SaveOutcomes :
            /\ cache' = save_cache(path, cache_data, outcome)
            /\ last_save' = [outcome |-> IF use_cache THEN outcome ELSE "skipped",
                             path |-> path, data |-> cache_data]
    /\ ipc' = "returned"
    /\ UNCHANGED <<coordVars, files, filename_index, max_depth, use_cache,
                   progress_queue, rpc, dirs_completed, total_files, total_dirs,
                   tasks, fs, all_drives, now, path, runs, completion>>

\* lines 204-208: one tuple taken from the progress queue
ReporterGet ==
    /\ rpc = "loop"
    /\ dirs_completed < total_dirs
    /\ progress_queue # <<>>
    /\ dirs_completed' = dirs_completed + 1
    /\ total_files' = total_files + Head(progress_queue)[2]
    /\ progress_queue' = Tail(progress_queue)
    /\ UNCHANGED <<coordVars, files, filename_index, max_depth, use_cache, ipc, rpc,
                   total_dirs, tasks, fs, all_drives, cache, now, path, runs, last_save, completion>>

\* lines 206, 218-219: get(timeout=0.1) raises queue.Empty; the loop goes on
ReporterEmpty ==
    /\ rpc = "loop"
    /\ dirs_completed < total_dirs
    /\ progress_queue = <<>>
    /\ UNCHANGED vars

\* line 204 false: the loop ends, the final line is printed, the thread ends
ReporterExit ==
    /\ rpc = "loop"
    /\ ~(dirs_completed < total_dirs)
    /\ rpc' = "done"
    /\ UNCHANGED <<coordVars, files, filename_index, max_depth, use_cache,
                   progress_queue, ipc, dirs_completed, total_files, total_dirs,
                   tasks, fs, all_drives, cache, now, path, runs, last_save, completion>>

MaxRuns == 2        \* program runs in one behaviour

\* main, lines 521-531: with -c every wzf_cache_* file of the cache
\* directory is removed before the WZF object is made; a file whose
\* os.remove raises (those in kept) is passed over and stays
cleared(dir, clear_cache, kept) ==
    IF clear_cache
    THEN [k \in DOMAIN dir |-> IF k \in kept THEN dir[k] ELSE NoCacheFile]
    ELSE dir

\* the cache files there are, any of which a removal may fail on
Removable(dir) == {k \in DOMAIN dir : dir[k].exists}

\* main, line 526: with -c, os.listdir(cache_dir) stands outside the try of
\* lines 528-531, so a cache directory that cannot be listed makes main
\* raise before a WZF is made
clear_raises(args, listdir_fails) == args.clear_cache /\ listdir_fails

\* run, lines 457-465: inside a container (/.dockerenv exists) a run with
\* -a prints a warning, sleeps and returns without calling index_files
refused(args, in_docker) == in_docker /\ args.all_drives

\* where a started program stands before its first step of index_files:
\* "main_raised" (line 526), "refused" (line 465), or "start" (line 478)
entry(args, in_docker, listdir_fails) ==
    IF clear_raises(args, listdir_fails) THEN "main_raised"
    ELSE IF refused(args, in_docker) THEN "refused"
    ELSE "start"

\* where run stands then: in index_files (line 478), returned (line 465),
\* or never called
coordinator_at(e) ==
    IF e = "start" THEN "index"
    ELSE IF e = "refused" THEN "returned"
    ELSE "not_run"

\* the terminal situations of a program: index_files returned or raised,
\* run returned before it, main raised before it
Ended == {"returned", "raised", "refused", "main_raised"}

\* a program started again on the object of the previous one: the basename
\* mapping is kept
NewRun_SameObject(args, delay, in_docker, listdir_fails, kept) ==
    /\ ipc \in Ended
    /\ runs < MaxRuns
    /\ runs' = runs + 1
    /\ now' = now + delay
    /\ path' = args.path
    /\ max_depth' = args.max_depth
    /\ all_drives' = args.all_drives
    /\ use_cache' = args.use_cache
    /\ files' = <<>>
    /\ progress_queue' = <<>>
    /\ ipc' = entry(args, in_docker, listdir_fails)
    /\ rpc' = "none"
    /\ dirs_completed' = 0 /\ total_files' = 0 /\ total_dirs' = 0
    /\ tasks' = <<>>
    /\ cache' = IF clear_raises(args, listdir_fails) THEN cache
                ELSE cleared(cache, args.clear_cache, kept)
    /\ upc' = coordinator_at(entry(args, in_docker, listdir_fails))
    /\ IF entry(args, in_docker, listdir_fails) = "start"
       THEN wpc' = "get" /\ alive' = 1
       ELSE wpc' = "none" /\ alive' = 0
    /\ UNCHANGED <<filtered_files, query, selected_index, page_start, running,
                   search_queue, result_queue, wq, nsub, deq, pub, filtered_id,
                   started_at_recv, timed_out, filename_index, fs, last_save,
                   completion>>

\* main (lines 521-540) and run (lines 455-478): the program is started
\* again, after the previous one has ended, on the same file system and
\* cache directory. With -c the cache files are removed first (lines
\* 521-531); then a fresh WZF (lines 47-66) with the arguments of this run
\* starts its search thread (lines 473-475) and calls index_files (line
\* 478), unless run returns before both (line 465). When main raises at
\* line 526 nothing is removed and there is no WZF at all.
NewRun(args, delay, in_docker, listdir_fails, kept) ==
    /\ ipc \in Ended
    /\ runs < MaxRuns
    /\ runs' = runs + 1
    /\ now' = now + delay
    /\ path' = args.path
    /\ max_depth' = args.max_depth          \* line 534
    /\ all_drives' = args.all_drives
    /\ use_cache' = args.use_cache          \* line 455
    /\ files' = <<>> /\ filename_index' = <<>>
    /\ progress_queue' = <<>>
    /\ ipc' = entry(args, in_docker, listdir_fails)
    /\ rpc' = "none"
    /\ dirs_completed' = 0 /\ total_files' = 0 /\ total_dirs' = 0
    /\ tasks' = <<>>
    /\ cache' = IF clear_raises(args, listdir_fails) THEN cache
                ELSE cleared(cache, args.clear_cache, kept)
    /\ filtered_files' = <<>> /\ query' = <<>>
    /\ selected_index' = 0 /\ page_start' = 0 /\ running' = TRUE
    /\ search_queue' = <<>> /\ result_queue' = <<>>
    /\ wq' = NoQuery
    /\ nsub' = 0 /\ deq' = <<>> /\ pub' = <<>>
    /\ filtered_id' = 0 /\ started_at_recv' = NoneItem /\ timed_out' = FALSE
    /\ upc' = coordinator_at(entry(args, in_docker, listdir_fails))
    /\ IF entry(args, in_docker, listdir_fails) = "start"
       THEN wpc' = "get" /\ alive' = 1          \* lines 473-475
       ELSE wpc' = "none" /\ alive' = 0
    /\ UNCHANGED <<fs, last_save, completion>>

IdxStep == IdxLoadCache \/ IdxSetup \/ IdxScan \/ IdxCollect \/ IdxJoin \/ IdxSave
ReporterStep == ReporterGet \/ ReporterEmpty \/ ReporterExit

----------------------------------------------------------------------------
(* Initial states and specifications                                       *)

nR == <<"R">>
nSub == <<"s","u","b">>
nGit == <<".","g","i","t">>
nA == <<"a",".","t","x","t">>
nB == <<"B",".","T","X","T">>
nAb == <<"a","b">>
nThumbs == <<"T","h","u","m","b","s",".","d","b">>
nX == <<"x">>
nS == <<"S">>
Digits == <<"1","2","3","4","5","6","7","8","9">>

MaxNesting == 2     \* directory levels below the root in the generated trees
ExtraDirs == 4      \* extra sub-directories of the root (with one more: the pool)
MaxDepthArg == 2    \* max_depth ranges over -1..MaxDepthArg
MaxDrives == 2      \* roots in all-drives mode
Now0 == 100000      \* time.time() when index_files runs

FileChoices == { <<>>, <<File(nA)>>, <<File(nThumbs), File(nB), ErrEntry(nX)>> }

RECURSIVE DirsUpTo(_)
DirsUpTo(n) ==
    IF n = 0
    THEN {Dir(nm, TRUE, fc) : nm \in {nSub, nGit}, fc \in FileChoices}
         \cup {Dir(nSub, FALSE, <<File(nA)>>)}
    ELSE DirsUpTo(n - 1) \cup
         {Dir(x[1], TRUE, x[2] \o <<x[3]>>) :
             x \in {nSub, nGit} \X FileChoices \X DirsUpTo(n - 1)}

Extras(k) == [i \in 1..k |-> Dir(<<"e", Digits[i]>>, TRUE, <<File(nA)>>)]

Roots ==
    {Dir(nR, TRUE, x[1] \o x[2] \o Extras(x[3])) :
        x \in FileChoices
              \X ({<<>>} \cup {<<d>> : d \in DirsUpTo(MaxNesting - 1)})
              \X {0, ExtraDirs}}
    \cup {Dir(nR, FALSE, <<File(nA)>>)}
    \cup {Dir(nGit, TRUE, <<File(nA), Dir(nSub, TRUE, <<File(nB)>>)>>)}

\* the few roots used where the cache or the drive list is what varies
SmallRoots ==
    { Dir(nR, TRUE, <<File(nA), Dir(nSub, TRUE, <<File(nB)>>)>>),
      Dir(nR, TRUE, <<>>),
      Dir(nR, FALSE, <<File(nA)>>) }

RECURSIVE SeqsUpTo(_, _)
SeqsUpTo(S, n) ==
    IF n = 0 THEN {<<>>}
    ELSE SeqsUpTo(S, n - 1) \cup
         {Append(q, x) : q \in {r \in SeqsUpTo(S, n - 1) : Len(r) = n - 1}, x \in S}

StoredIndex ==
    LET fl == << <<nR, nAb>> >>
    IN [files |-> fl, filename_index |-> index_after(<<>>, fl)]

\* cache files found at the start: none, a record of some age, bytes that do
\* not unpickle, and pickled objects of another shape
CacheChoices ==
    { NoCacheFile,
      CacheFile(Now0 - 10, FALSE, pickle_dump(StoredIndex)),
      CacheFile(Now0 - cache_ttl, FALSE, pickle_dump(StoredIndex)),
      CacheFile(Now0 - cache_ttl - 1, FALSE, pickle_dump(StoredIndex)),
      CacheFile(Now0 - 10, TRUE, NoCacheFile.data),
      CacheFile(Now0 - 10, FALSE, pickle_dump([files |-> StoredIndex.files])),
      CacheFile(Now0 - 10, FALSE,
                pickle_dump([filename_index |-> StoredIndex.filename_index])) }

\* the root paths given to index_files, and their cache paths
AllPaths == {<<nR>>, <<nDot, nR>>, <<nS>>, <<nGit>>}
CachePaths == {get_cache_path(p) : p \in AllPaths}

\* a cache directory holding the file c for path p and nothing else
CacheDirWith(p, c) ==
    [k \in CachePaths |-> IF k = get_cache_path(p) THEN c ELSE NoCacheFile]

NoSave == [outcome |-> "none", path |-> <<>>,
           data |-> [files |-> <<>>, filename_index |-> <<>>]]

\* the coordinator while index_files runs (run, line 478): thread started,
\* nothing submitted yet
CoordIdle ==
    /\ filtered_files = <<>> /\ query = <<>>
    /\ selected_index = 0 /\ page_start = 0 /\ running = TRUE
    /\ search_queue = <<>> /\ result_queue = <<>>
    /\ wq = NoQuery
    /\ nsub = 0 /\ deq = <<>> /\ pub = <<>>
    /\ filtered_id = 0 /\ started_at_recv = NoneItem /\ timed_out = FALSE

\* a fresh WZF (lines 47-66) entering index_files
IndexStart ==
    /\ CoordIdle /\ upc = "index" /\ wpc = "get" /\ alive = 1
    /\ files = <<>> /\ filename_index = <<>>
    /\ progress_queue = <<>>
    /\ ipc = "start" /\ rpc = "none"
    /\ dirs_completed = 0 /\ total_files = 0 /\ total_dirs = 0
    /\ tasks = <<>>
    /\ now = Now0
    /\ runs = 1 /\ last_save = NoSave
    /\ max_depth \in -1..MaxDepthArg
    /\ \/ /\ all_drives = FALSE /\ use_cache = TRUE
          /\ fs \in {<<r>> : r \in Roots}
          /\ path = <<fs[1].name>>
          /\ cache = CacheDirWith(path, NoCacheFile)
       \/ /\ all_drives = FALSE /\ use_cache \in BOOLEAN
          /\ fs \in {<<r>> : r \in SmallRoots}
          /\ path = <<fs[1].name>>
          /\ cache \in {CacheDirWith(path, c) : c \in CacheChoices}
       \/ /\ all_drives = TRUE /\ use_cache = TRUE
          /\ fs \in SeqsUpTo(SmallRoots, MaxDrives)
          /\ path = <<nR>>
          /\ cache = CacheDirWith(path, NoCacheFile)

\* the pool's tasks finish in input order
IndexInit == IndexStart /\ completion = <<>>

IndexNext == IdxStep \/ TaskRun \/ ReporterStep

IndexSpec == IndexInit /\ [][IndexNext]_vars

\* every thread of index_files keeps running: the caller, the pool's tasks,
\* the reporter
FairIndexSpec ==
    IndexSpec /\ WF_vars(IdxStep) /\ WF_vars(TaskRun)
              /\ WF_vars(ReporterGet) /\ WF_vars(ReporterExit)

\* schedules of a pool of n tasks: every order in which they can finish
Orders(n) ==
    {o \in [1..n -> 1..n] : \A i, j \in 1..n : o[i] = o[j] => i = j}

\* the sub-directories of the root that go to the pool, if they do
PoolSize ==
    LET n == Len(SelectSeq(fs[1].entries,
                    LAMBDA e : e.kind = "dir" /\ ~skip_dir(e.name)))
    IN IF ~all_drives /\ fs[1].ok /\ 0 < max_depth      \* lines 132-135, 153
          /\ n > FanOutThreshold                         \* line 154
       THEN n ELSE 0

\* the roots of the fan-out runs: a file, one sub-directory, and as many
\* more as send the root's sub-directories to the pool
FanOutRoots ==
    { Dir(nR, TRUE, <<File(nA), d>> \o Extras(ExtraDirs)) :
        d \in { Dir(nSub, TRUE, <<File(nB), Dir(nGit, TRUE, <<File(nA)>>)>>),
                Dir(nSub, FALSE, <<File(nA)>>) } }

\* index_files on a single path whose root has more than 4 sub-directories,
\* the tasks of the pool (when the depth limit lets one be made) finishing
\* in any order
FanOutInit ==
    /\ CoordIdle /\ upc = "index" /\ wpc = "get" /\ alive = 1
    /\ files = <<>> /\ filename_index = <<>>
    /\ progress_queue = <<>>
    /\ ipc = "start" /\ rpc = "none"
    /\ dirs_completed = 0 /\ total_files = 0 /\ total_dirs = 0
    /\ tasks = <<>>
    /\ now = Now0
    /\ runs = 1 /\ last_save = NoSave
    /\ max_depth \in -1..MaxDepthArg
    /\ all_drives = FALSE /\ use_cache = TRUE
    /\ fs \in {<<r>> : r \in FanOutRoots}
    /\ path = <<fs[1].name>>
    /\ cache = CacheDirWith(path, NoCacheFile)
    /\ completion \in (IF PoolSize > 0 THEN Orders(PoolSize) ELSE {<<>>})

\* the single-path steps of index_files and its reporter
FanOutNext ==
    IdxLoadCache \/ IdxSetup \/ IdxScan \/ IdxJoin \/ IdxSave \/ ReporterStep

FanOutSpec == FanOutInit /\ [][FanOutNext]_vars

\* the file system of the runs that share a cache directory: two roots
CacheRoots ==
    << Dir(nR, TRUE, <<File(nA), Dir(nSub, TRUE, <<File(nB)>>)>>),
       Dir(nS, TRUE, <<File(nAb)>>) >>

\* the command lines of those runs: -p, -d, -a, -n, -c
Args(p, d, a, c, x) ==
    [path |-> p, max_depth |-> d, all_drives |-> a, use_cache |-> c,
     clear_cache |-> x]
RunArgs ==
    { Args(<<nR>>, 1, FALSE, TRUE, FALSE),
      Args(<<nDot, nR>>, 1, FALSE, TRUE, FALSE),
      Args(<<nS>>, 1, FALSE, TRUE, FALSE),
      Args(<<nR>>, 0, FALSE, TRUE, FALSE),
      Args(<<nR>>, 1, TRUE, TRUE, FALSE),
      Args(<<nR>>, 1, FALSE, FALSE, FALSE),
      Args(<<nR>>, 1, FALSE, TRUE, TRUE),
      Args(<<nR>>, 1, FALSE, FALSE, TRUE) }

\* the time between the starts of two runs
Delays == {10, cache_ttl, cache_ttl + 1}

\* the first of the runs: a fresh WZF with its search thread started (lines
\* 473-475) entering index_files, or a program that ended before both
CacheInit ==
    /\ CoordIdle
    /\ completion = <<>>
    /\ files = <<>> /\ filename_index = <<>>
    /\ progress_queue = <<>>
    /\ rpc = "none"
    /\ dirs_completed = 0 /\ total_files = 0 /\ total_dirs = 0
    /\ tasks = <<>>
    /\ now = Now0
    /\ runs = 1 /\ last_save = NoSave
    /\ fs = CacheRoots
    /\ \E args \in RunArgs, in_docker \in BOOLEAN, listdir_fails \in BOOLEAN :
          /\ ipc = entry(args, in_docker, listdir_fails)
          /\ upc = coordinator_at(ipc)
          /\ IF ipc = "start"
             THEN wpc = "get" /\ alive = 1       \* lines 473-475
             ELSE wpc = "none" /\ alive = 0
          /\ path = args.path /\ max_depth = args.max_depth
          /\ all_drives = args.all_drives /\ use_cache = args.use_cache
          /\ cache \in {IF clear_raises(args, listdir_fails)
                         THEN CacheDirWith(path, c)
                         ELSE cleared(CacheDirWith(path, c), args.clear_cache, kept) :
                            c \in CacheChoices, kept \in SUBSET {get_cache_path(path)}}

RunStep ==
    \E args \in RunArgs, delay \in Delays, in_docker \in BOOLEAN,
       listdir_fails \in BOOLEAN, kept \in SUBSET Removable(cache) :
        NewRun(args, delay, in_docker, listdir_fails, kept)

CacheNext == IdxStep \/ TaskRun \/ ReporterStep \/ RunStep

CacheSpec == CacheInit /\ [][CacheNext]_vars

\* the indexes the search runs over
SearchFiles ==
    { << <<nR, nA>>, <<nR, nSub, nB>> >>,
      << <<nR, nA>>, <<nR, nSub, nB>>, <<nR, nAb>> >> }

\* run at line 472, with index_files (line 478) already summarised in files
\* and filename_index
SearchInit ==
    /\ CoordIdle /\ upc = "run_start" /\ wpc = "none" /\ alive = 0
    /\ completion = <<>>
    /\ files \in SearchFiles
    /\ filename_index = index_after(<<>>, files)
    /\ progress_queue = <<>>
    /\ ipc = "returned" /\ rpc = "done"
    /\ dirs_completed = 0 /\ total_files = 0 /\ total_dirs = 0
    /\ tasks = <<>> /\ fs = <<>> /\ all_drives = FALSE
    /\ now = Now0 /\ use_cache = TRUE
    /\ path = <<nR>> /\ cache = CacheDirWith(path, NoCacheFile)
    /\ runs = 1 /\ last_save = NoSave
    /\ max_depth = 10

SearchNext == UIStep \/ KeyStep \/ WorkerStep

SearchSpec == SearchInit /\ [][SearchNext]_vars

\* the indexes the navigation keys are tried on: one whose results fill
\* more than a page (12, 11, 2, 1 or 0 entries for the queries over Keys),
\* and the index of an empty directory
NavFiles ==
    { [i \in 1..9 |-> <<nR, <<"a", Digits[i]>>>>]
          \o << <<nR, nA>>, <<nR, nAb>>, <<nR, nSub, nB>> >>,
      <<>> }

\* the main loop of run (lines 488-490) a little into a session: the initial
\* filter is over, the user has typed one character, and its result has
\* been delivered and is displayed
NavInit ==
    /\ upc = "loop" /\ wpc = "get" /\ alive = 1
    /\ completion = <<>>
    /\ files \in NavFiles
    /\ filename_index = index_after(<<>>, files)
    /\ query = <<"a">>
    /\ filtered_files = search_result(query)
    /\ selected_index = 0 /\ page_start = 0 /\ running = TRUE
    /\ search_queue = <<>> /\ result_queue = <<>>
    /\ wq = NoQuery
    /\ nsub = 2
    /\ deq = <<QueryItem(<<>>, 1), QueryItem(query, 2)>>
    /\ pub = <<1, 2>>
    /\ filtered_id = 2 /\ started_at_recv = QueryItem(query, 2)
    /\ timed_out = FALSE
    /\ progress_queue = <<>>
    /\ ipc = "returned" /\ rpc = "done"
    /\ dirs_completed = 0 /\ total_files = 0 /\ total_dirs = 0
    /\ tasks = <<>> /\ fs = <<>> /\ all_drives = FALSE
    /\ now = Now0 /\ use_cache = TRUE
    /\ path = <<nR>> /\ cache = CacheDirWith(path, NoCacheFile)
    /\ runs = 1 /\ last_save = NoSave
    /\ max_depth = 10

\* the main loop with every key of handle_input, the worker beside it, and
\* the cleanup after the loop
NavNext ==
    \/ KeyStep \/ NavStep
    \/ FF_StartThread \/ FF_DrainCheck \/ FF_DrainGet \/ FF_Put \/ FF_Poll
    \/ CleanupPut \/ Join
    \/ WorkerStep

NavSpec == NavInit /\ [][NavNext]_vars

\* both threads keep running; the user may stop pressing keys
FairSearchSpec == SearchSpec /\ WF_vars(UIStep) /\ WF_vars(WorkerStep)

\* only the UI thread is sure to run: the worker may stay inside a match
ShutdownSpec == SearchSpec /\ WF_vars(UIStep)

MaxMatchLen == 4     \* length of the query being matched when a key is pressed
BigIndexLen == 1005  \* entries of the index that is longer than the result cap
MatchKeys == {<<"a">>, <<"B">>, <<"t">>}

DigitChars == <<"0","1","2","3","4","5","6","7","8","9">>
Digit(i, p) == DigitChars[((i \div p) % 10) + 1]
Num4(i) == <<Digit(i, 1000), Digit(i, 100), Digit(i, 10), Digit(i, 1)>>

nTat == <<"t","a","t">>

\* R/0001/tat, R/0002/tat, ... with B.TXT in every 400th directory
BigIndex ==
    [i \in 1..BigIndexLen |-> <<nR, Num4(i), IF i % 400 = 0 THEN nB ELSE nTat>>]

nTabat == <<"t","a","b","a","t">>

MatchFiles ==
    SearchFiles \cup
    { << <<nR, nA>>, <<nR, nSub, nB>>, <<nR, nAb>>, <<nR, nSub, nA>>,
         <<nR, <<"t","a","b">>>>, <<nR, <<"b","a","t",".","t","x","t">>>> >>,
      << <<nR, nTabat>>, <<nR, <<"T","a","B">>>>, <<nR, nSub, nTabat>>, <<nR, nA>> >> }

\* the pairs (query being matched, query typed next): a character key or
\* backspace pressed on the first gives the second
NextQueries(q0) ==
    {q0 \o c : c \in MatchKeys}
    \cup {IF q0 = <<>> THEN <<>> ELSE SubSeq(q0, 1, Len(q0) - 1)}
BigQueries == {<<>>, <<"a">>, <<"B">>, <<"t">>, <<"t", "a">>}

\* run, some keys into the session: the worker was slow to start, so each
\* filter_files so far drained the pending query and timed out; the worker
\* then dequeued the query q0 and is matching it while the user has typed
\* the next one, which is pending. The index came from a walk or a cache
\* (filename_index filled) or from the drives' pool (filename_index empty).
MatchInit ==
    /\ \/ files \in MatchFiles
       \/ files = BigIndex
    /\ filename_index \in {index_after(<<>>, files), <<>>}
    /\ \E q0 \in IF files = BigIndex THEN BigQueries
                  ELSE SeqsUpTo({k[1] : k \in MatchKeys}, MaxMatchLen) :
         \E q \in NextQueries(q0) :
            /\ query = q
            /\ wq = QueryItem(q0, Len(q0) + 1)
            /\ deq = <<wq>>
            /\ nsub = Len(q0) + 2
            /\ search_queue = <<QueryItem(q, nsub)>>
    /\ upc = "loop" /\ wpc = "match" /\ alive = 1
    /\ completion = <<>>
    /\ filtered_files = Take(files, ResultCap)
    /\ selected_index = 0 /\ page_start = 0 /\ running = TRUE
    /\ result_queue = <<>> /\ pub = <<>>
    /\ filtered_id = 0 /\ started_at_recv = NoneItem /\ timed_out = TRUE
    /\ progress_queue = <<>>
    /\ ipc = "returned" /\ rpc = "done"
    /\ dirs_completed = 0 /\ total_files = 0 /\ total_dirs = 0
    /\ tasks = <<>> /\ fs = <<>> /\ all_drives = FALSE
    /\ now = Now0 /\ use_cache = TRUE
    /\ path = <<nR>> /\ cache = CacheDirWith(path, NoCacheFile)
    /\ runs = 1 /\ last_save = NoSave
    /\ max_depth = 10

MatchNext == WorkerStep

MatchSpec == MatchInit /\ [][MatchNext]_vars

----------------------------------------------------------------------------
(* Claims about the search coordinator                                     *)

\* C1: latest-query-wins. A result the caller takes from the result queue is
\* never the result of a query submitted before the latest query whose match
\* had already started (been dequeued by the worker) by then. (A list equal
\* to that later query's own result is not counted against the claim.)
C1_LatestQueryWins ==
    \/ filtered_id >= started_at_recv.id
    \/ filtered_files = search_result(started_at_recv.q)

\* C2: the pending-query slot. The search queue never holds more than one
\* query, a query it holds is the most recently submitted one, and every
\* query the worker dequeues is, at that moment, the most recently submitted
\* one (a query superseded while pending is never dequeued).
C2_PendingSlot ==
    /\ [](/\ Len(PendingQueries) <= 1
          /\ \A i \in 1..Len(search_queue) :
                ~search_queue[i].none => search_queue[i].id = nsub)
    /\ [][deq' # deq => Last(deq').id = nsub]_vars

\* C2 witness: a query was superseded while pending (never dequeued), and the
\* latest query now occupies the slot
C2_Witness ==
    /\ Len(PendingQueries) = 1
    /\ \E k \in 1..(nsub - 1) : k \notin Range(Ids(deq)) /\ k > LastOr0(Ids(deq))

\* the system is at rest: the UI waits for a key, the worker waits for a
\* query, nothing is pending
Quiescent == upc = "loop" /\ wpc = "get" /\ search_queue = <<>>

\* C3: eventual delivery. Once submissions have stopped and every submitted
\* query has been matched, the caller's filtered_files is the result of the
\* most recently submitted query (self.query).
C3_EventualDelivery == Quiescent => filtered_files = search_result(query)

InFilterFiles == upc \in {"ff_start", "ff_drain", "ff_drain_get", "ff_put", "ff_poll"}

\* C4: bounded poll. A call of filter_files always returns, whether or not
\* the worker makes progress, and a poll that finds the result queue empty
\* leaves filtered_files as it was.
C4_BoundedPoll ==
    /\ [][(upc = "ff_poll" /\ upc' # "ff_poll" /\ result_queue = <<>>)
            => filtered_files' = filtered_files]_vars
    /\ (InFilterFiles ~> upc = "loop")

\* C4 witness: filter_files returned after a timed-out poll, a previous
\* non-empty result still displayed
C4_Witness ==
    upc = "loop" /\ timed_out /\ nsub >= 2 /\ filtered_files # <<>>

SentinelQueued == \E i \in 1..Len(search_queue) : search_queue[i].none

\* C5: sentinel shutdown. Once the sentinel is queued the worker eventually
\* ends; when it has ended it has matched and published the last submitted
\* query (the one that may have been queued ahead of the sentinel), it has
\* published exactly one result per dequeued query and none for the sentinel,
\* and it publishes nothing afterwards.
C5_SentinelShutdown ==
    /\ [](wpc = "done" =>
            /\ search_queue = <<>>
            /\ pub = Ids(deq)
            /\ LastOr0(pub) = nsub)
    /\ [][wpc = "done" => (pub' = pub /\ result_queue' = result_queue)]_vars
    /\ (SentinelQueued ~> wpc = "done")

\* C5 witness: the worker ended after matching several queries
C5_Witness == wpc = "done" /\ nsub >= 2 /\ LastOr0(pub) = nsub

\* C6: shutdown never hangs. The cleanup of run completes even when the
\* worker never takes the sentinel.
C6_ShutdownNeverHangs == (upc = "cleanup") ~> (upc = "returned")

\* C6 witness: run has returned while the worker is still inside a match,
\* the sentinel untouched
C6_Witness == upc = "returned" /\ wpc = "match" /\ SentinelQueued

----------------------------------------------------------------------------
(* Claims about the walker and index_files                                 *)

\* The files of a tree, each with its path, its name and the directories
\* above it (the root first): what a walk could find at all.
RECURSIVE FilesUnder(_, _, _)
FilesUnder(dirpath, node, above) ==
    LET here == Append(above, [name |-> node.name, ok |-> node.ok])
        idx == 1..Len(node.entries)
    IN {[path |-> dirpath \o <<node.entries[i].name>>,
         name |-> node.entries[i].name,
         above |-> here] : i \in {j \in idx : node.entries[j].kind = "file"}}
       \cup UNION {FilesUnder(dirpath \o <<node.entries[i].name>>, node.entries[i], here) :
                      i \in {j \in idx : node.entries[j].kind = "dir"}}

FilesOfRoot(i) == FilesUnder(RootPath(i), RootTree(i), <<>>)

\* the directories between the root and the file, and the file's level
Between(f) == Tail(f.above)
Level(f) == Len(f.above) - 1

Readable(f) == \A k \in 1..Len(f.above) : f.above[k].ok

\* the file passes the exclusion lists and the depth limit
Wanted(f) ==
    /\ f.name \notin exclude_files
    /\ \A k \in 1..Len(Between(f)) : Between(f)[k].name \notin exclude_dirs
    /\ Level(f) <= max_depth

Count(s, x) == Cardinality({i \in 1..Len(s) : s[i] = x})

\* tuples put on the progress queue so far (those the reporter took included)
PutsSoFar == Len(progress_queue) + dirs_completed

\* top-level scan_directory calls that have returned
ScansReturned ==
    IF all_drives
    THEN Cardinality({i \in 1..Len(tasks) : tasks[i].state = "ok"})
    ELSE IF ipc \in {"join", "save"} \/ (ipc = "returned" /\ rpc # "none")
         THEN 1 ELSE 0

\* the single-path scan has just returned (line 274)
ScanDone == ~all_drives /\ ipc = "join"

\* C7: progress exactly once per root. Every top-level scan_directory call
\* that has returned has put exactly one tuple on the progress queue,
\* whatever its return path; recursive calls put none.
C7_ProgressOncePerRoot == PutsSoFar = ScansReturned

\* C8: indexing terminates. Every call of index_files eventually returns.
C8_IndexingTerminates == <>(ipc = "returned")

\* C9: failure isolation. A directory that cannot be opened contributes no
\* file, and every wanted file whose directories can all be opened is in the
\* index; in all-drives mode a root whose task raised takes nothing away
\* from the roots whose scan returned.
C9_FailureIsolation ==
    /\ ScanDone =>
        \A f \in FilesOfRoot(1) :
            /\ ~Readable(f) => f.path \notin Range(files)
            /\ (Readable(f) /\ Wanted(f)) => f.path \in Range(files)
    /\ (all_drives /\ ipc \in {"join", "returned"}) =>
        \A i \in 1..Len(fs) : \A f \in FilesOfRoot(i) :
            /\ ~Readable(f) => f.path \notin Range(files)
            /\ (tasks[i].state = "ok" /\ Readable(f) /\ Wanted(f))
                  => f.path \in Range(files)

\* C9 witness: a walk that met an unreadable sub-directory holding a file and
\* still returned a file of a readable sibling
C9_Witness ==
    /\ ScanDone
    /\ \E f, g \in FilesOfRoot(1) :
        /\ ~Readable(f) /\ fs[1].ok /\ Wanted(f)
        /\ Readable(g) /\ Level(g) >= 1 /\ g.path \in Range(files)

AllReadable(i) == \A f \in FilesOfRoot(i) : Readable(f)

\* C10: completeness. On a tree without unreadable directories the returned
\* list holds a file of the tree exactly once if it passes the exclusion
\* lists and the depth limit, not at all otherwise, and nothing else.
C10_Completeness ==
    (ScanDone /\ fs[1].ok /\ AllReadable(1)) =>
        /\ \A f \in FilesOfRoot(1) :
              Count(files, f.path) = IF Wanted(f) THEN 1 ELSE 0
        /\ Range(files) \subseteq {f.path : f \in FilesOfRoot(1)}

\* C10 witness: a walk of a readable tree that kept a file two levels down,
\* and dropped one file for its name, one for an excluded directory above it
\* and one for its depth
C10_Witness ==
    /\ ScanDone /\ fs[1].ok /\ AllReadable(1)
    /\ \E f \in FilesOfRoot(1) : Level(f) >= 1 /\ f.path \in Range(files)
    /\ \E f \in FilesOfRoot(1) : f.name \in exclude_files
    /\ \E f \in FilesOfRoot(1) : Level(f) > max_depth /\ max_depth >= 0

\* a directory above the file, the walk's starting directory included, has
\* an excluded name
UnderExcluded(f) == \E k \in 1..Len(f.above) : f.above[k].name \in exclude_dirs

\* a directory entry met below the starting directory has an excluded name
UnderExcludedEntry(f) ==
    \E k \in 1..Len(Between(f)) : Between(f)[k].name \in exclude_dirs

\* the walk of index_files is over: the single-path scan has returned, or
\* every drive's task has been collected
WalkDone == ScanDone \/ (all_drives /\ ipc \in {"join", "returned"})

\* the roots whose scan returned a list
RootsScanned ==
    IF all_drives THEN {i \in 1..Len(fs) : tasks[i].state = "ok"} ELSE {1}

\* C11 as stated: exclusion correctness. No file beneath a directory whose
\* name is in the excluded-directories set is in the index, the walk's
\* starting directory counted among those directories.
C11_ExclusionCorrectness ==
    WalkDone => \A i \in RootsScanned : \A f \in FilesOfRoot(i) :
        UnderExcluded(f) => f.path \notin Range(files)

\* C11 amended: no file beneath a directory entry that the walk meets at any
\* depth below its starting directory, and whose name is in the
\* excluded-directories set, is in the index. The name of the starting
\* directory itself is never tested (lines 138-148 test entries only).
C11_ExclusionBelowRoot ==
    WalkDone => \A i \in RootsScanned : \A f \in FilesOfRoot(i) :
        UnderExcludedEntry(f) => f.path \notin Range(files)

\* C11 witness: a walk that went two levels down, kept a file there, and met
\* an excluded directory holding a file that the depth limit would allow
C11_Witness ==
    /\ ScanDone /\ fs[1].ok
    /\ \E f \in FilesOfRoot(1) :
          /\ UnderExcludedEntry(f) /\ Readable(f)
          /\ f.name \notin exclude_files /\ Level(f) <= max_depth
    /\ \E g \in FilesOfRoot(1) : Level(g) >= 1 /\ g.path \in Range(files)

\* C12: depth bound. With max_depth = D >= 0, no file lying more than D
\* directory levels below the root is in the index, whether its directory
\* was reached through the sequential loop or through the thread pool.
C12_DepthBound ==
    (WalkDone /\ max_depth >= 0) =>
        \A i \in RootsScanned : \A f \in FilesOfRoot(i) :
            Level(f) > max_depth => f.path \notin Range(files)

\* the sub-directories of the root that the walk recurses into
RootDirs(i) ==
    SelectSeq(fs[i].entries, LAMBDA e : e.kind = "dir" /\ e.name \notin exclude_dirs)

\* C12 witness: the root's sub-directories went to the thread pool, a file
\* one level down was kept and a readable, not excluded file deeper than
\* max_depth was left out
C12_Witness ==
    /\ ScanDone /\ fs[1].ok /\ max_depth >= 1
    /\ Len(RootDirs(1)) > FanOutThreshold
    /\ \E g \in FilesOfRoot(1) : Level(g) = 1 /\ g.path \in Range(files)
    /\ \E f \in FilesOfRoot(1) :
          /\ Level(f) > max_depth /\ Readable(f) /\ ~UnderExcludedEntry(f)
          /\ f.name \notin exclude_files

----------------------------------------------------------------------------
(* Claims about the index cache                                            *)

\* the cache file of the path being indexed, and its age
Record == cache[get_cache_path(path)]
Age == now - Record.mtime

\* index_files returned at line 238: the index came from the cache
AnsweredFromCache == ~all_drives /\ ipc = "returned" /\ rpc = "none"

\* index_files went past line 238 to the walk, and has not yet saved
Walking == ~all_drives /\ ipc \in {"setup", "scan", "join", "save"}

\* index_files returned at the end of a walk of the path (line 285)
WalkedAndReturned == ~all_drives /\ ipc = "returned" /\ rpc = "done"

\* what a fresh walk of the path under the current max_depth returns
FreshWalk == scan_directory(path, TreeOf(path), 0, TRUE).ret

\* the saved index as load_cache would return it
SavedIndex == [hit |-> TRUE, data |-> last_save.data]

C14_CacheExpiry == AnsweredFromCache => Age < cache_ttl

\* the payload of a cache file is not an index: the bytes do not unpickle,
\* or the unpickled dict lacks the file list or the basename mapping
Unusable(c) ==
    c.exists /\ (c.corrupt
                 \/ {"files", "filename_index"} \ (DOMAIN pickle_load(c.data)) # {})

\* C15: a corrupt cache is a miss. When the payload stored for the path is
\* not a usable index, index_files neither raises nor returns from the
\* cache: it goes on to the walk.
C15_CorruptIsMiss ==
    (~all_drives /\ use_cache /\ ipc # "start" /\ Unusable(Record))
        => (ipc # "raised" /\ ~AnsweredFromCache)

SaveFailed == last_save.outcome \in {"open_failed", "dump_failed"}

\* C16: best-effort save. When the write of the cache record fails,
\* index_files still returns, with the walked files and their basenames
\* installed, and a later run on the same path finds no cache record.
C16_BestEffortSave ==
    /\ []((WalkedAndReturned /\ SaveFailed) =>
            /\ files = FreshWalk
            /\ filename_index = index_after(<<>>, files))
    /\ []((~all_drives /\ SaveFailed /\ last_save.path = path) =>
            ~load_cache(path).hit)
    /\ [][ipc = "save" => ipc' = "returned"]_vars

\* C16 witness: the run after a failed save, on the same path with caching
\* enabled, is walking the tree again
C16_Witness ==
    /\ runs >= 2 /\ SaveFailed /\ last_save.path = path
    /\ use_cache /\ ipc = "scan" /\ Record.exists

\* two paths name the same directory
SameDir(p, q) == Normalize(p) = Normalize(q)

\* a record that an earlier run wrote, still younger than the TTL
Reusable(c) ==
    /\ c.exists /\ ~Unusable(c)
    /\ c.mtime >= Now0 /\ now - c.mtime < cache_ttl

\* C17: cache key. A run uses the record of its root directory however the
\* root path is spelled (it does not walk the tree while a record that an
\* earlier run wrote for the same directory, under any spelling, is younger
\* than the TTL), and the paths of different directories have different
\* cache paths.
C17_CacheKey ==
    /\ (Walking /\ use_cache) =>
          \A q \in AllPaths : SameDir(q, path) => ~Reusable(cache[get_cache_path(q)])
    /\ \A p, q \in AllPaths :
          ~SameDir(p, q) => get_cache_path(p) # get_cache_path(q)

\* C18: idempotence. An index installed from a cache record that an earlier
\* run wrote for this tree is the index a fresh walk of the tree under the
\* current max_depth would produce.
C18_Idempotence ==
    (AnsweredFromCache /\ Record.mtime >= Now0) =>
        /\ files = FreshWalk
        /\ filename_index = index_after(<<>>, FreshWalk)

----------------------------------------------------------------------------
(* Claims about the matcher                                                *)

\* the query whose result an entry of result_queue is
QueryOf(r) == (CHOOSE it \in Range(deq) : it.id = r.id).q

\* the entries whose lowercase basename contains the lowercased query, in
\* index order, cut at the result cap
SubstringMatches(q) ==
    Take(SelectSeq(files, LAMBDA f : contains(lower(q), lower(basename(f)))),
         ResultCap)

\* C19: short and medium tiers. The result published for a query of 1 to 4
\* characters is exactly the first 1000, in index order, of the entries
\* whose lowercase basename contains the lowercased query.
C19_SubstringTiers ==
    \A i \in 1..Len(result_queue) :
        LET q == QueryOf(result_queue[i])
        IN (1 <= Len(q) /\ Len(q) <= 4) => result_queue[i].res = SubstringMatches(q)

\* a result was cut at the cap and is not simply the head of the index
CappedAndFiltered(r) ==
    Len(r.res) = ResultCap /\ r.res # Take(files, ResultCap)

\* C19 witness: on an index longer than the cap, a result of the short tier
\* and a result of the medium tier were published, each cut at the cap and
\* each skipping entries that do not match
C19_Witness ==
    /\ Len(files) > ResultCap
    /\ \E i, j \in 1..Len(result_queue) :
          /\ Len(QueryOf(result_queue[i])) \in {1, 2}
          /\ Len(QueryOf(result_queue[j])) \in {3, 4}
          /\ CappedAndFiltered(result_queue[i])
          /\ CappedAndFiltered(result_queue[j])

\* C20: the empty query. The result published for the empty query is the
\* first 1000 entries of the index in index order, and the worker then
\* waits for the next query instead of ending.
C20_EmptyQuery ==
    /\ [](\A i \in 1..Len(result_queue) :
            QueryOf(result_queue[i]) = <<>> =>
                result_queue[i].res = Take(files, ResultCap))
    /\ [][(wpc = "match" /\ wq.q = <<>>) =>
            (wpc' = "get" /\ Len(result_queue') = Len(result_queue) + 1)]_vars

\* C20 witness: on an index longer than the cap the empty query's result
\* was published, and the worker went on to publish the next query's
C20_Witness ==
    /\ Len(files) > ResultCap
    /\ Len(result_queue) = 2
    /\ QueryOf(result_queue[1]) = <<>>
    /\ Len(result_queue[1].res) = ResultCap
    /\ QueryOf(result_queue[2]) # <<>>

\* the long tier as stated: the pre-filtered candidates (the first 10,000)
\* whose own basename scores at or above the cutoff, each as its own path,
\* best score first, cut at the cap
ScoredCandidates(q) ==
    LET cands == Take(SelectSeq(files,
                        LAMBDA f : all_chars_in(lower(q), lower(basename(f)))),
                      CandidateCap)
        score == [i \in 1..Len(cands) |->
                    partial_ratio100(lower(q), lower(basename(cands[i])))]
        kept  == {i \in 1..Len(cands) : score[i] >= 100 * ScoreCutoff}
        ord   == order_by_score(kept, score)
    IN Take([k \in 1..Len(ord) |-> cands[ord[k]]], ResultCap)

\* C21: long tier. The result published for a query of more than 4
\* characters is the list of the pre-filtered candidates whose own basename
\* scores at or above 65, each listed as its own path, in descending score
\* order, capped at 1000.
C21_LongTier ==
    \A i \in 1..Len(result_queue) :
        LET q == QueryOf(result_queue[i])
        IN Len(q) > 4 => result_queue[i].res = ScoredCandidates(q)

\* C22: pre-filter soundness. For a query of 3 or more characters that the
\* worker has taken, every entry whose lowercase basename contains the
\* lowercased query passes the character pre-filter of the medium and long
\* tiers.
C22_PrefilterSound ==
    \A i \in 1..Len(deq) :
        LET q    == deq[i].q
            kept == Range(prefilter(lower(q)))
        IN Len(q) >= 3 =>
            \A k \in 1..Len(files) :
                contains(lower(q), lower(basename(files[k])))
                    => files[k] \in kept

\* C22 witness: a query of 3 or more characters was matched on an index
\* where the pre-filter keeps an entry whose basename, written in capitals
\* on disk, contains the query, and removes another entry
C22_Witness ==
    \E i \in 1..Len(result_queue) :
        LET q == QueryOf(result_queue[i])
        IN /\ Len(q) >= 3
           /\ \E k \in 1..Len(files) :
                 /\ contains(lower(q), lower(basename(files[k])))
                 /\ ~contains(lower(q), basename(files[k]))
                 /\ files[k] \in Range(result_queue[i].res)
           /\ Len(prefilter(lower(q))) < Len(files)

\* C27: long-tier results have no duplicates. No path appears more than
\* once in the result published for a query of more than 4 characters.
C27_NoDuplicates ==
    \A i \in 1..Len(result_queue) :
        LET r == result_queue[i].res
        IN Len(QueryOf(result_queue[i])) > 4 =>
            \A a, b \in 1..Len(r) : r[a] = r[b] => a = b

\* the queries whose match is complete, in the order they were dequeued
Matched == IF wpc = "match" THEN SubSeq(deq, 1, Len(deq) - 1) ELSE deq

\* C23: in-flight match is never cancelled. Every query the worker has
\* dequeued and finished matching has exactly one result published, in
\* dequeue order, whatever was submitted meanwhile; the results still on the
\* result queue are the latest published ones, in that order, each the
\* result of its own query; and every match the worker is inside ends.
C23_NoCancel ==
    /\ [](/\ pub = Ids(Matched)
          /\ Len(result_queue) <= Len(pub)
          /\ \A i \in 1..Len(result_queue) :
                LET k == Len(pub) - Len(result_queue) + i
                IN /\ result_queue[i].id = pub[k]
                   /\ result_queue[i].res = search_result(deq[k].q))
    /\ (wpc = "match" ~> wpc # "match")

\* C23 witness: two queries were dequeued and each has its result published,
\* in dequeue order, although a newer query was submitted before the second
\* match ended and is waiting
C23_Witness ==
    /\ wpc = "get" /\ Len(pub) >= 2 /\ pub = Ids(deq)
    /\ Len(PendingQueries) = 1
    /\ Len(result_queue) >= 1 /\ Last(result_queue).id = Last(pub)

\* C26: single search worker. At most one search worker thread is alive,
\* and a step of filter_files starts one only when there is none or the
\* previous one has ended.
C26_SingleWorker ==
    /\ [](alive <= 1)
    /\ [][(upc = "ff_start" /\ alive' > alive) => wpc \in {"none", "done"}]_vars

\* C26 witness: filter_files was entered again with the worker of run still
\* alive, and passed its thread check without starting another
C26_Witness ==
    upc = "ff_drain" /\ nsub >= 2 /\ alive = 1 /\ wpc \in {"get", "match"}

\* C28: the empty string is not the sentinel. The worker ends only by taking
\* the None sentinel, which only the cleanup of run puts; an empty query it
\* takes is matched like any other, and up to the cleanup the worker is
\* alive.
C28_EmptyIsNotSentinel ==
    /\ [][(wpc # "done" /\ wpc' = "done") => Head(search_queue).none]_vars
    /\ [][(deq' # deq /\ Last(deq').q = <<>>) => wpc' = "match"]_vars
    /\ []((upc \notin {"run_start", "join", "returned"}) =>
            (alive = 1 /\ wpc \in {"get", "match"}))

\* C28 witness: the worker took an empty query, published its result, and
\* has since taken and published a later query
C28_Witness ==
    \E i, j \in 1..Len(deq) :
        /\ i < j /\ deq[i].q = <<>> /\ deq[j].q # <<>>
        /\ deq[j].id \in Range(pub)
        /\ alive = 1 /\ wpc = "get"

\* a record in the cache directory, written for another path, that lists a
\* file the index does not hold
OtherPassRecord ==
    \E k \in DOMAIN cache :
        /\ k # get_cache_path(path)
        /\ cache[k].exists /\ ~Unusable(cache[k])
        /\ Range(pickle_load(cache[k].data).files) \ Range(files) # {}

Pooled ==
    /\ ScanDone /\ fs[1].ok /\ max_depth >= 1
    /\ Len(RootDirs(1)) > FanOutThreshold

\* the files of the index that lie in or below a sub-directory of the root
Below == {a \in 1..Len(files) : Len(files[a]) > Len(path) + 1}

\* the input position (in dirs_to_scan) of the root's sub-directory that
\* holds the file, and the place at which that sub-directory's task finished
DirPos(p) ==
    CHOOSE i \in 1..Len(RootDirs(1)) : RootDirs(1)[i].name = p[Len(path) + 1]
FinishedAt(p) ==
    CHOOSE k \in 1..Len(completion) : completion[k] = DirPos(p)

\* C25 as stated: parallel fan-out order. The file lists of the
\* sub-directories walked by the pool are in the index in the order in
\* which their tasks completed.
C25_CompletionOrder ==
    Pooled => \A a, b \in Below :
        a < b => FinishedAt(files[a]) <= FinishedAt(files[b])

\* C25 amended: the file lists of the sub-directories walked by the pool are
\* in the index in the order of dirs_to_scan (the order in which the
\* directory listing gave the sub-directories), whatever the order in which
\* the pool's tasks completed; the interleaving of the tasks does not change
\* the order of the index.
C25_SubmissionOrder ==
    Pooled => \A a, b \in Below :
        a < b => DirPos(files[a]) <= DirPos(files[b])

\* C25 witness: the pool walked the root's sub-directories, the task of the
\* first sub-directory finished last, and the index holds a file of it and a
\* file of the sub-directory whose task finished first
C25_Witness ==
    /\ Pooled
    /\ completion[Len(completion)] = 1 /\ completion[1] # 1
    /\ \E a, b \in Below :
          DirPos(files[a]) = 1 /\ DirPos(files[b]) = completion[1]

\* C29: cursor never negative. After any sequence of key events on any
\* result list, an empty one included, selected_index >= 0 and
\* page_start >= 0.
C29_CursorNonNegative == selected_index >= 0 /\ page_start >= 0

\* C30: the selected row is on the displayed page. Whenever filtered_files
\* is not empty, page_start <= selected_index < page_start + page_size and
\* selected_index < len(filtered_files).
C30_SelectedOnPage ==
    filtered_files # <<>> =>
        /\ page_start <= selected_index
        /\ selected_index < page_start + page_size
        /\ selected_index < Len(filtered_files)

\* C30 witness: on a list longer than a page the keys have moved the page
\* to a start that is not a multiple of the page size, and the selection
\* below the first displayed row
C30_Witness ==
    /\ upc = "loop" /\ Len(filtered_files) > page_size
    /\ page_start > 0 /\ page_start < page_size
    /\ selected_index > page_start

====
